---- MODULE Spec2Model ----
(***************************************************************************)
(* State-machine model of src/main.py (the Streamlit to-do application):   *)
(* the session document (st.session_state.lists / current_list / users),   *)
(* the session's authentication fields, the JSON file DATA_FILE, and one   *)
(* action per form handler, button handler and on_click callback.          *)
(*                                                                         *)
(* Widget bookkeeping that no handler of the document reads is left out:   *)
(* the text held by the input widgets (it is the handler's input), the     *)
(* filters of the task view, the tab of the authentication page and        *)
(* delete_confirmation (the two clicks that delete a list are one step).   *)
(* Every form and button the page can show is therefore enabled whenever   *)
(* the script renders it for some value of these.                          *)
(*                                                                         *)
(* Representation of Python values                                         *)
(*   str            a sequence of one-character strings                    *)
(*   timestamps and the ids derived from them     positive integers        *)
(*   None           None (0) where an id or timestamp may stand,           *)
(*                  NoUser (<<>>) for session_state.username: the code     *)
(*                  only ever stores a non-empty string there              *)
(*   dict with insertion order that the code reads (lists)                 *)
(*                  a sequence of entries [k |-> key, v |-> value]         *)
(*   dict whose order is never read (users, a task, a list's fields)       *)
(*                  a function / record                                    *)
(***************************************************************************)
EXTENDS Integers, Sequences, FiniteSets, TLC

VARIABLES session_state, disk, clock, pc, faults, last, passwords

vars == <<session_state, disk, clock, pc, faults, last, passwords>>

(***************************************************************************)
(* Bounds of the model.                                                    *)
(***************************************************************************)
\* datetime.now() readings that produce a new id in one session
MaxTicks == 1
\* lists held by the document
MaxLists == 3
\* tasks held by one list
MaxTasks == 2
\* distinct values os.urandom(32) is drawn from
MaxSalt == 1
\* save_data() calls that fail in one session of SpecIO
MaxIOFailures == 1

None == 0
NoUser == <<>>

\* one glyph of each palette stands for the eight; no operation reads a glyph
LIST_EMOJIS == {"memo"}
TASK_EMOJIS == {"bullet"}
PRIORITIES == {"High", "Medium", "Low"}

(***************************************************************************)
(* Values typed into the forms.                                            *)
(***************************************************************************)
ANN == <<"a", "n", "n">>
BOB == <<"b", "o", "b">>
PW_ANN == <<"p", "w", "1", "2">>
PW_BOB == <<"a", "b", "c", "d">>

UsernameInputs == {<<>>, <<"b", "o">>, ANN, BOB}
\* typed into the login form
PasswordInputs == {<<>>, <<"p", "w", "1">>, PW_ANN, PW_BOB}
\* typed into the registration form, with the confirmation typed next to each
NewPasswordInputs == {<<>>, <<"p", "w", "1">>, PW_ANN}
ConfirmInputs(password) == {password, PW_BOB}
TaskTextInputs == {<<>>, <<" ", " ">>, <<" ", "m", " ">>}
ListNameInputs == {<<>>, <<" ">>, <<"g", " ">>}
Salts == 1..MaxSalt
Stamps == 1..(5 + MaxTicks)

(***************************************************************************)
(* Python built-ins used by the code.                                      *)
(***************************************************************************)
RECURSIVE lstrip(_)
lstrip(s) == IF s # <<>> /\ Head(s) = " " THEN lstrip(Tail(s)) ELSE s

RECURSIVE rstrip(_)
rstrip(s) == IF s # <<>> /\ s[Len(s)] = " " THEN rstrip(SubSeq(s, 1, Len(s) - 1)) ELSE s

strip(s) == rstrip(lstrip(s))

\* d.keys(), k in d, d[k], d[k] = v, del d[k] on an insertion-ordered dict
Keys(d) == {d[i].k : i \in DOMAIN d}

Has(d, key) == key \in Keys(d)

IndexOf(d, key) == CHOOSE i \in DOMAIN d : d[i].k = key

Get(d, key) == d[IndexOf(d, key)].v

Put(d, key, val) ==
    IF Has(d, key)
    THEN [d EXCEPT ![IndexOf(d, key)] = [k |-> key, v |-> val]]
    ELSE Append(d, [k |-> key, v |-> val])

\* a removal that also drops every entry after the key
DelFrom(d, key) == SubSeq(d, 1, IndexOf(d, key) - 1)

Del(d, key) == LET Keep(e) == e.k # key IN SelectSeq(d, Keep)

\* next(iter(d.keys())): the first key inserted
FirstKey(d) == d[1].k

(***************************************************************************)
(* Credential store: hash_password, verify_password, check_credentials.    *)
(***************************************************************************)
b64encode(bytes) == [enc |-> "base64", bytes |-> bytes]

\* base64.b64decode raises on text that is not base64
Decodable(text) == text.enc = "base64"

b64decode(text) == text.bytes

\* hashlib.pbkdf2_hmac('sha256', password, salt, 100000): a derivation that is
\* injective in (password, salt)
pbkdf2_hmac(password, salt) == [salt |-> salt, password |-> password]

hash_password(password, salt) ==
    [salt |-> b64encode(salt), key |-> b64encode(pbkdf2_hmac(password, salt))]

\* the statements of the try block that raise (KeyError, binascii.Error)
VerifyRaises(stored_password) ==
    \/ "salt" \notin DOMAIN stored_password
    \/ ~Decodable(stored_password.salt)
    \/ "key" \notin DOMAIN stored_password
    \/ ~Decodable(stored_password.key)

verify_password(stored_password, provided_password) ==
    IF VerifyRaises(stored_password)
    THEN FALSE
    ELSE pbkdf2_hmac(provided_password, b64decode(stored_password.salt))
            = b64decode(stored_password.key)

\* a check that accepts every password of a known username
check_credentials_by_name(ss, username, password) ==
    username \in DOMAIN ss.users

check_credentials(ss, username, password) ==
    IF username \in DOMAIN ss.users
    THEN verify_password(ss.users[username].password_hash, password)
    ELSE FALSE

(***************************************************************************)
(* Persistence: json.dump / json.load, save_data, load_data.               *)
(* A JSON text is modelled by its parsed structure with every scalar       *)
(* tagged by its JSON type; a Python None is written as null, a bool as    *)
(* true/false, every str as a string.                                      *)
(***************************************************************************)
JNull == [jt |-> "null"]

JString(s) == [jt |-> "string", v |-> s]

JBool(b) == [jt |-> "bool", v |-> b]

JOptional(x) == IF x = None THEN JNull ELSE JString(x)

PyValue(j) == IF j.jt = "null" THEN None ELSE j.v

json_dump_task(task) ==
    [f \in DOMAIN task |->
        CASE f = "completed" -> JBool(task[f])
          [] f = "completed_at" -> JOptional(task[f])
          [] OTHER -> JString(task[f])]

\* a loader that gives every task a completed_at field
json_load_task_filling(j) ==
    [f \in DOMAIN j \cup {"completed_at"} |->
        IF f \in DOMAIN j THEN PyValue(j[f]) ELSE None]

json_load_task(j) == [f \in DOMAIN j |-> PyValue(j[f])]

json_dump_list(list_data) ==
    [f \in DOMAIN list_data |->
        IF f = "tasks"
        THEN [i \in DOMAIN list_data.tasks |-> json_dump_task(list_data.tasks[i])]
        ELSE JString(list_data[f])]

json_load_list(j) ==
    [f \in DOMAIN j |->
        IF f = "tasks"
        THEN [i \in DOMAIN j.tasks |-> json_load_task(j.tasks[i])]
        ELSE PyValue(j[f])]

json_dump_user(user) ==
    [f \in DOMAIN user |->
        IF f = "password_hash"
        THEN [g \in DOMAIN user.password_hash |-> JString(user.password_hash[g])]
        ELSE JString(user[f])]

json_load_user(j) ==
    [f \in DOMAIN j |->
        IF f = "password_hash"
        THEN [g \in DOMAIN j.password_hash |-> PyValue(j.password_hash[g])]
        ELSE PyValue(j[f])]

\* the dict built at lines 58-62, serialised
json_dump(ss) ==
    [lists |-> [i \in DOMAIN ss.lists |->
                   [k |-> ss.lists[i].k, v |-> json_dump_list(ss.lists[i].v)]],
     current_list |-> JOptional(ss.current_list),
     users |-> [u \in DOMAIN ss.users |-> json_dump_user(ss.users[u])]]

json_load(text) ==
    [f \in DOMAIN text |->
        CASE f = "lists" ->
               [i \in DOMAIN text.lists |->
                   [k |-> text.lists[i].k, v |-> json_load_list(text.lists[i].v)]]
          [] f = "users" ->
               [u \in DOMAIN text.users |-> json_load_user(text.users[u])]
          [] OTHER -> PyValue(text[f])]

EmptyDocument == [lists |-> <<>>, current_list |-> None, users |-> <<>>]

load_data(file) ==
    IF file.kind = "json" THEN json_load(file.text) ELSE EmptyDocument

\* open(DATA_FILE, "w") raising leaves the file as it was; an error raised by
\* json.dump or by closing the file comes after open() has truncated it
IO_OUTCOMES == {"ok", "open_failed", "write_failed"}

save_data(ss, file, outcome) ==
    CASE outcome = "ok" -> [kind |-> "json", text |-> json_dump(ss)]
      [] outcome = "open_failed" -> file
      [] outcome = "write_failed" -> [kind |-> "partial"]

\* data.get(key, default)
DataGet(data, key, default) == IF key \in DOMAIN data THEN data[key] ELSE default

initialize_state(file) ==
    LET data == load_data(file)
        lists == DataGet(data, "lists", <<>>)
    IN  [lists |-> lists,
         current_list |-> IF lists # <<>>
                          THEN DataGet(data, "current_list", FirstKey(lists))
                          ELSE None,
         users |-> DataGet(data, "users", <<>>),
         authenticated |-> FALSE,
         username |-> NoUser,
         register_success |-> FALSE]

(***************************************************************************)
(* Domain mutators.  Each operator gives the outcome of one call on the    *)
(* session state ss: the state afterwards, whether save_data() was called, *)
(* and the exception that escaped or the message given to st.error.        *)
(***************************************************************************)
Outcome(state, saves, error) == [state |-> state, saves |-> saves, error |-> error]

Unchanged(ss) == Outcome(ss, FALSE, "")

\* st.session_state.lists[list_id]["tasks"] = tasks
SetTasks(ss, list_id, tasks) ==
    [ss EXCEPT !.lists = Put(ss.lists, list_id,
                             [Get(ss.lists, list_id) EXCEPT !.tasks = tasks])]

\* an add_list that does not make the new list the active one
add_list_keeps_pointer(ss, new_list_name, emoji, now) ==
    IF new_list_name # <<>> /\ strip(new_list_name) # <<>>
    THEN Outcome([ss EXCEPT
                    !.lists = Put(ss.lists, now,
                                  [name |-> strip(new_list_name),
                                   tasks |-> <<>>,
                                   emoji |-> emoji,
                                   created_at |-> now,
                                   owner |-> ss.username])],
                 TRUE, "")
    ELSE Unchanged(ss)

add_list(ss, new_list_name, emoji, now) ==
    IF new_list_name # <<>> /\ strip(new_list_name) # <<>>
    THEN Outcome([ss EXCEPT
                    !.lists = Put(ss.lists, now,
                                  [name |-> strip(new_list_name),
                                   tasks |-> <<>>,
                                   emoji |-> emoji,
                                   created_at |-> now,
                                   owner |-> ss.username]),
                    !.current_list = now],
                 TRUE, "")
    ELSE Unchanged(ss)

\* an add_task that puts the new task in front
add_task_in_front(ss, new_task, priority, emoji, now) ==
    IF new_task # <<>> /\ strip(new_task) # <<>> /\ ss.current_list # None
    THEN IF Has(ss.lists, ss.current_list)
         THEN Outcome(SetTasks(ss, ss.current_list,
                         <<[id |-> now,
                            text |-> strip(new_task),
                            completed |-> FALSE,
                            created_at |-> now,
                            priority |-> priority,
                            emoji |-> emoji]>>
                         \o Get(ss.lists, ss.current_list).tasks),
                      TRUE, "")
         ELSE Outcome(ss, FALSE, "KeyError")
    ELSE Unchanged(ss)

add_task(ss, new_task, priority, emoji, now) ==
    IF new_task # <<>> /\ strip(new_task) # <<>> /\ ss.current_list # None
    THEN IF Has(ss.lists, ss.current_list)
         THEN Outcome(SetTasks(ss, ss.current_list,
                         Append(Get(ss.lists, ss.current_list).tasks,
                                [id |-> now,
                                 text |-> strip(new_task),
                                 completed |-> FALSE,
                                 created_at |-> now,
                                 priority |-> priority,
                                 emoji |-> emoji])),
                      TRUE, "")
         ELSE Outcome(ss, FALSE, "KeyError")
    ELSE Unchanged(ss)

\* a toggle that stamps a completion and never clears the stamp
ToggledKeepsStamp(task, now) ==
    [f \in DOMAIN task \cup {"completed_at"} |->
        CASE f = "completed" -> ~task.completed
          [] f = "completed_at" -> (IF ~task.completed THEN now
                                   ELSE DataGet(task, "completed_at", None))
          [] OTHER -> task[f]]

\* lines 131-132 on one task dict
Toggled(task, now) ==
    [f \in DOMAIN task \cup {"completed_at"} |->
        CASE f = "completed" -> ~task.completed
          [] f = "completed_at" -> (IF ~task.completed THEN now ELSE None)
          [] OTHER -> task[f]]

\* a loop that toggles every task of the list once the id is found
ToggleEvery(tasks, task_id, now) ==
    IF \E i \in DOMAIN tasks : tasks[i].id = task_id
    THEN [i \in DOMAIN tasks |-> Toggled(tasks[i], now)]
    ELSE tasks

\* the for loop of lines 129-133: the first task with that id, then break
ToggleFirst(tasks, task_id, now) ==
    IF \E i \in DOMAIN tasks : tasks[i].id = task_id
    THEN LET i == CHOOSE i \in DOMAIN tasks :
                     /\ tasks[i].id = task_id
                     /\ \A j \in 1..(i - 1) : tasks[j].id # task_id
         IN  [tasks EXCEPT ![i] = Toggled(tasks[i], now)]
    ELSE tasks

toggle_task(ss, list_id, task_id, now) ==
    IF Has(ss.lists, list_id)
    THEN Outcome(SetTasks(ss, list_id,
                    ToggleFirst(Get(ss.lists, list_id).tasks, task_id, now)),
                 TRUE, "")
    ELSE Unchanged(ss)

delete_task(ss, list_id, task_id) ==
    IF Has(ss.lists, list_id)
    THEN LET Keep(task) == task.id # task_id
         IN  Outcome(SetTasks(ss, list_id,
                        SelectSeq(Get(ss.lists, list_id).tasks, Keep)),
                     TRUE, "")
    ELSE Unchanged(ss)

\* a clear_completed that empties the list
clear_completed_drops_all(ss, list_id) ==
    IF Has(ss.lists, list_id)
    THEN Outcome(SetTasks(ss, list_id, <<>>), TRUE, "")
    ELSE Unchanged(ss)

clear_completed(ss, list_id) ==
    IF Has(ss.lists, list_id)
    THEN LET Keep(task) == ~task.completed
         IN  Outcome(SetTasks(ss, list_id,
                        SelectSeq(Get(ss.lists, list_id).tasks, Keep)),
                     TRUE, "")
    ELSE Unchanged(ss)

\* the "Clear All Tasks" handler, lines 599-602
clear_all_tasks(ss) ==
    IF Has(ss.lists, ss.current_list)
    THEN Outcome(SetTasks(ss, ss.current_list, <<>>), TRUE, "")
    ELSE Outcome(ss, FALSE, "KeyError")

\* a deletion that leaves the active-list pointer alone
delete_list_keeps_pointer(ss, list_id) ==
    IF Has(ss.lists, list_id)
    THEN Outcome([ss EXCEPT !.lists = Del(ss.lists, list_id)], TRUE, "")
    ELSE Unchanged(ss)

delete_list(ss, list_id) ==
    IF Has(ss.lists, list_id)
    THEN LET lists == Del(ss.lists, list_id)
         IN  Outcome([ss EXCEPT
                        !.lists = lists,
                        !.current_list =
                            IF ss.current_list = list_id
                            THEN (IF lists # <<>> THEN FirstKey(lists) ELSE None)
                            ELSE ss.current_list],
                     TRUE, "")
    ELSE Unchanged(ss)

get_task_count(ss, list_id) ==
    IF Has(ss.lists, list_id)
    THEN LET tasks == Get(ss.lists, list_id).tasks
             Done(task) == task.completed
         IN  <<Len(tasks), Len(SelectSeq(tasks, Done))>>
    ELSE <<0, 0>>

logout(ss) == [ss EXCEPT !.authenticated = FALSE, !.username = NoUser]

(***************************************************************************)
(* The authentication page, lines 311-402.                                 *)
(***************************************************************************)
login(ss, username, password) ==
    IF username = <<>> \/ password = <<>>
    THEN Outcome(ss, FALSE, "Please enter both username and password")
    ELSE IF check_credentials(ss, username, password)
    THEN Outcome([ss EXCEPT !.authenticated = TRUE, !.username = username], FALSE, "")
    ELSE Outcome(ss, FALSE, "Invalid username or password")

\* the validation without the test for a taken username
RegisterErrorAllowsTaken(ss, username, password, confirm_password) ==
    IF username = <<>> \/ password = <<>>
    THEN "Please enter both username and password"
    ELSE IF Len(username) < 3
    THEN "Username must be at least 3 characters"
    ELSE IF password # confirm_password
    THEN "Passwords do not match"
    ELSE IF Len(password) < 4
    THEN "Password must be at least 4 characters"
    ELSE ""

\* lines 369-379
RegisterError(ss, username, password, confirm_password) ==
    IF username = <<>> \/ password = <<>>
    THEN "Please enter both username and password"
    ELSE IF Len(username) < 3
    THEN "Username must be at least 3 characters"
    ELSE IF password # confirm_password
    THEN "Passwords do not match"
    ELSE IF Len(password) < 4
    THEN "Password must be at least 4 characters"
    ELSE IF username \in DOMAIN ss.users
    THEN "Username already exists"
    ELSE ""

\* users[username] = {...} on a dict
PutUser(users, username, user) ==
    [u \in DOMAIN users \cup {username} |-> IF u = username THEN user ELSE users[u]]

register(ss, username, password, confirm_password, salt, now) ==
    LET error == RegisterError(ss, username, password, confirm_password)
    IN  IF error # ""
        THEN Outcome(ss, FALSE, error)
        ELSE Outcome([ss EXCEPT
                        !.users = PutUser(ss.users, username,
                                     [password_hash |-> hash_password(password, salt),
                                      created_at |-> now]),
                        !.register_success = TRUE],
                     TRUE, "")

(***************************************************************************)
(* One run of the script body after a handler: the authentication gate     *)
(* (lines 312-402) and the ownership guard on current_list (473-480).      *)
(***************************************************************************)
\* list_data.get("owner")
OwnerOf(list_data) == IF "owner" \in DOMAIN list_data THEN list_data.owner ELSE NoUser

\* user_lists, lines 432-435
user_lists(ss) == {k \in Keys(ss.lists) : OwnerOf(Get(ss.lists, k)) = ss.username}

\* the task view below line 481 is rendered
TaskViewShown(ss) ==
    /\ ss.authenticated
    /\ ss.current_list # None
    /\ Has(ss.lists, ss.current_list)
    /\ OwnerOf(Get(ss.lists, ss.current_list)) = ss.username

\* a script run without the owner test of lines 477-480
run_script_unguarded(ss) ==
    IF ~ss.authenticated /\ ss.register_success
    THEN [ss EXCEPT !.register_success = FALSE]
    ELSE ss

run_script(ss) ==
    IF ~ss.authenticated
    THEN IF ss.register_success
         THEN [ss EXCEPT !.register_success = FALSE]
         ELSE ss
    ELSE IF /\ ss.current_list # None
            /\ Has(ss.lists, ss.current_list)
            /\ OwnerOf(Get(ss.lists, ss.current_list)) # ss.username
    THEN [ss EXCEPT !.current_list = None]
    ELSE ss

(***************************************************************************)
(* Documents found in DATA_FILE when the session starts: written by an     *)
(* earlier session, written by an earlier version of the program (fields   *)
(* missing), damaged, or absent.                                           *)
(***************************************************************************)
SeedTask(id, completed, fields) ==
    [f \in {"id", "text", "completed", "created_at", "priority", "emoji"} \cup fields |->
        CASE f = "id" -> id
          [] f = "text" -> <<"m">>
          [] f = "completed" -> completed
          [] f = "created_at" -> id
          [] f = "priority" -> "High"
          [] f = "emoji" -> "bullet"
          [] f = "completed_at" -> IF completed THEN id ELSE None]

SeedList(id, owner, tasks) ==
    [k |-> id,
     v |-> [name |-> <<"g">>, tasks |-> tasks, emoji |-> "memo",
            created_at |-> id, owner |-> owner]]

SeedUser(password, salt) ==
    [password_hash |-> hash_password(password, salt), created_at |-> 1]

SeedSession(lists, current_list, users) ==
    [lists |-> lists, current_list |-> current_list, users |-> users]

\* a document saved by an earlier session: two users, a list each
FullDocument ==
    json_dump(SeedSession(
        <<SeedList(1, ANN, <<SeedTask(3, FALSE, {})>>),
          SeedList(2, BOB, <<SeedTask(4, TRUE, {"completed_at"})>>)>>,
        1,
        (ANN :> SeedUser(PW_ANN, 1)) @@ (BOB :> SeedUser(PW_BOB, 2))))

\* a document without the current_list field, one stored key not base64
LegacyDocument ==
    LET doc == json_dump(SeedSession(
                   <<SeedList(2, ANN, <<>>),
                     SeedList(1, BOB, <<SeedTask(5, FALSE, {"completed_at"})>>)>>,
                   None,
                   (ANN :> SeedUser(PW_ANN, 1)) @@
                   (BOB :> [password_hash |->
                               [salt |-> b64encode(2), key |-> [enc |-> "garbled"]],
                            created_at |-> 1])))
    IN  [f \in {"lists", "users"} |-> doc[f]]

\* a document holding only users, one stored hash without its key
UsersOnlyDocument ==
    LET doc == json_dump(SeedSession(
                   <<>>, None,
                   (ANN :> [password_hash |-> [salt |-> b64encode(1)],
                            created_at |-> 1])))
    IN  [f \in {"users"} |-> doc[f]]

NoPasswords == [u \in {} |-> <<>>]

Seeds ==
    {[file |-> [kind |-> "absent"], passwords |-> NoPasswords],
     [file |-> [kind |-> "garbled"], passwords |-> NoPasswords],
     [file |-> [kind |-> "json", text |-> FullDocument],
      passwords |-> (ANN :> PW_ANN) @@ (BOB :> PW_BOB)],
     [file |-> [kind |-> "json", text |-> LegacyDocument],
      passwords |-> (ANN :> PW_ANN)],
     [file |-> [kind |-> "json", text |-> UsersOnlyDocument],
      passwords |-> NoPasswords]}

(***************************************************************************)
(* State.                                                                  *)
(*   session_state  st.session_state                                       *)
(*   disk           the file DATA_FILE                                     *)
(*   clock          the latest reading of datetime.now()                   *)
(*   pc             "idle": the page is rendered and waits for the user;   *)
(*                  "rerun": a handler has returned and the script body,   *)
(*                  which will change the session state, runs next         *)
(*   faults         the save_data() calls that may still fail: the storage *)
(*                  is healthy in Spec and fails MaxIOFailures times in    *)
(*                  SpecIO                                                 *)
(*   last           history: the last handler or call, the ids it was      *)
(*                  given and the outcome of its save_data()               *)
(*   passwords      history: the password each user registered with        *)
(***************************************************************************)
Record(op, via, list_id, task_id) ==
    [op |-> op, via |-> via, list |-> list_id, task |-> task_id, save |-> "none"]

Start(seed, budget) ==
    /\ disk = seed.file
    /\ session_state = initialize_state(seed.file)
    /\ passwords = seed.passwords
    /\ clock = 5
    /\ pc = "idle"
    /\ faults = budget
    /\ last = Record("initialize_state", "ui", None, None)

Init == \E seed \in Seeds : Start(seed, 0)

InitIO == \E seed \in Seeds : seed.file.kind = "json" /\ Start(seed, MaxIOFailures)

\* the effect of one handler or call whose outcome is r
Apply(r, rec, next_pc) ==
    /\ session_state' = r.state
    /\ pc' = next_pc
    /\ IF r.saves
       THEN \E outcome \in IO_OUTCOMES :
               /\ outcome # "ok" => faults > 0
               /\ disk' = save_data(r.state, disk, outcome)
               /\ faults' = IF outcome = "ok" THEN faults ELSE faults - 1
               /\ last' = [rec EXCEPT !.save = outcome]
       ELSE /\ disk' = disk
            /\ faults' = faults
            /\ last' = rec

\* the script body runs after every handler; it is a step of its own when it
\* changes the session state
AfterHandler(ss) == IF run_script(ss) = ss THEN "idle" ELSE "rerun"

\* a handler of the page; one that changes nothing and saves nothing leaves the
\* history as it was
Handler(op, list_id, task_id, r) ==
    /\ Apply(r,
             IF r.state = session_state /\ ~r.saves
             THEN last
             ELSE Record(op, "ui", list_id, task_id),
             AfterHandler(r.state))

(***************************************************************************)
(* The authentication page.                                                *)
(***************************************************************************)
OnLoginPage == pc = "idle" /\ ~session_state.authenticated

LoginWith(username, password) ==
    /\ OnLoginPage
    /\ Handler("login", None, None, login(session_state, username, password))
    /\ UNCHANGED <<clock, passwords>>

Login == \E username \in UsernameInputs, password \in PasswordInputs :
            LoginWith(username, password)

RegisterWith(username, password, confirm_password, salt) ==
    LET r == register(session_state, username, password, confirm_password, salt, clock)
    IN  /\ OnLoginPage
        /\ Handler("register", None, None, r)
        /\ passwords' = IF r.saves THEN PutUser(passwords, username, password)
                        ELSE passwords
        /\ UNCHANGED clock

Register ==
    \E username \in UsernameInputs, password \in NewPasswordInputs, salt \in Salts :
       \E confirm_password \in ConfirmInputs(password) :
          RegisterWith(username, password, confirm_password, salt)

(***************************************************************************)
(* The main page.                                                          *)
(***************************************************************************)
OnMainPage == pc = "idle" /\ session_state.authenticated

Logout ==
    /\ OnMainPage
    /\ Handler("logout", None, None, Unchanged(logout(session_state)))
    /\ UNCHANGED <<clock, passwords>>

\* the model stops generating ids after MaxTicks readings
CanTick == clock < 5 + MaxTicks

CreateListWith(new_list_name, emoji) ==
    LET r == add_list(session_state, new_list_name, emoji, clock + 1)
    IN  /\ OnMainPage
        /\ r.saves => CanTick /\ Len(session_state.lists) < MaxLists
        /\ Handler("add_list", None, None, r)
        /\ clock' = IF r.saves THEN clock + 1 ELSE clock
        /\ UNCHANGED passwords

CreateList == \E new_list_name \in ListNameInputs, emoji \in LIST_EMOJIS :
                 CreateListWith(new_list_name, emoji)

SelectList ==
    /\ OnMainPage
    /\ \E list_id \in user_lists(session_state) :
          Handler("select_list", list_id, None,
                  Unchanged([session_state EXCEPT !.current_list = list_id]))
    /\ UNCHANGED <<clock, passwords>>

\* the bin button of a list the sidebar shows, then "Yes"
ConfirmDeleteOf(list_id) ==
    /\ OnMainPage
    /\ list_id \in user_lists(session_state)
    /\ Handler("delete_list", list_id, None, delete_list(session_state, list_id))
    /\ UNCHANGED <<clock, passwords>>

ConfirmDelete == \E list_id \in Keys(session_state.lists) : ConfirmDeleteOf(list_id)

CurrentTasks == Get(session_state.lists, session_state.current_list).tasks

AddTaskWith(new_task, priority, emoji) ==
    LET r == add_task(session_state, new_task, priority, emoji, clock + 1)
    IN  /\ OnMainPage
        /\ TaskViewShown(session_state)
        /\ r.saves => CanTick /\ Len(CurrentTasks) < MaxTasks
        /\ Handler("add_task", session_state.current_list, None, r)
        /\ clock' = IF r.saves THEN clock + 1 ELSE clock
        /\ UNCHANGED passwords

AddTask == \E new_task \in TaskTextInputs, priority \in PRIORITIES, emoji \in TASK_EMOJIS :
              AddTaskWith(new_task, priority, emoji)

\* the checkbox of a task the view shows; its args are the ids rendered with it
ToggleTaskOf(list_id, task_id) ==
    /\ OnMainPage
    /\ TaskViewShown(session_state)
    /\ list_id = session_state.current_list
    /\ \E i \in DOMAIN CurrentTasks : CurrentTasks[i].id = task_id
    /\ Handler("toggle_task", list_id, task_id,
               toggle_task(session_state, list_id, task_id, clock))
    /\ UNCHANGED <<clock, passwords>>

ToggleTask == \E list_id \in Keys(session_state.lists), task_id \in Stamps :
                 ToggleTaskOf(list_id, task_id)

DeleteTaskOf(list_id, task_id) ==
    /\ OnMainPage
    /\ TaskViewShown(session_state)
    /\ list_id = session_state.current_list
    /\ \E i \in DOMAIN CurrentTasks : CurrentTasks[i].id = task_id
    /\ Handler("delete_task", list_id, task_id,
               delete_task(session_state, list_id, task_id))
    /\ UNCHANGED <<clock, passwords>>

DeleteTask == \E list_id \in Keys(session_state.lists), task_id \in Stamps :
                 DeleteTaskOf(list_id, task_id)

\* the button is rendered when completed_tasks > 0
ClearCompleted ==
    /\ OnMainPage
    /\ TaskViewShown(session_state)
    /\ get_task_count(session_state, session_state.current_list)[2] > 0
    /\ Handler("clear_completed", session_state.current_list, None,
               clear_completed(session_state, session_state.current_list))
    /\ UNCHANGED <<clock, passwords>>

\* the button is rendered when the list has tasks
ClearAll ==
    /\ OnMainPage
    /\ TaskViewShown(session_state)
    /\ CurrentTasks # <<>>
    /\ Handler("clear_all_tasks", session_state.current_list, None,
               clear_all_tasks(session_state))
    /\ UNCHANGED <<clock, passwords>>

RunScript ==
    /\ pc = "rerun"
    /\ session_state' = run_script(session_state)
    /\ pc' = "idle"
    /\ last' = [last EXCEPT !.via = "script"]
    /\ UNCHANGED <<disk, clock, faults, passwords>>

(***************************************************************************)
(* Calls of the mutators by a caller other than the page: any argument,    *)
(* no gate of the presentation layer before the call, no script run after. *)
(***************************************************************************)
\* an id that keys nothing
UnknownId == 5 + MaxTicks + 1

ListIdArgs == Keys(session_state.lists) \cup {UnknownId}

TaskIdArgs(list_id) ==
    IF Has(session_state.lists, list_id)
    THEN {Get(session_state.lists, list_id).tasks[i].id :
              i \in DOMAIN Get(session_state.lists, list_id).tasks} \cup {UnknownId}
    ELSE {UnknownId}

Call(op, list_id, task_id, r) ==
    /\ pc = "idle"
    /\ session_state.authenticated
    /\ Apply(r, Record(op, "call", list_id, task_id), "idle")
    /\ UNCHANGED passwords

CallDeleteListOf(list_id) ==
    /\ Call("delete_list", list_id, None, delete_list(session_state, list_id))
    /\ UNCHANGED clock

CallDeleteList == \E list_id \in ListIdArgs : CallDeleteListOf(list_id)

CallToggleTaskOf(list_id, task_id) ==
    /\ Call("toggle_task", list_id, task_id,
            toggle_task(session_state, list_id, task_id, clock))
    /\ UNCHANGED clock

CallToggleTask == \E list_id \in ListIdArgs : \E task_id \in TaskIdArgs(list_id) :
                     CallToggleTaskOf(list_id, task_id)

CallAddTaskWith(new_task, priority, emoji) ==
    LET r == add_task(session_state, new_task, priority, emoji, clock + 1)
    IN  /\ r.saves => CanTick /\ Len(CurrentTasks) < MaxTasks
        /\ Call("add_task", session_state.current_list, None, r)
        /\ clock' = IF r.saves THEN clock + 1 ELSE clock

CallAddTask ==
    \E new_task \in TaskTextInputs, priority \in PRIORITIES, emoji \in TASK_EMOJIS :
       CallAddTaskWith(new_task, priority, emoji)

CallAddListWith(new_list_name, emoji) ==
    LET r == add_list(session_state, new_list_name, emoji, clock + 1)
    IN  /\ r.saves => CanTick /\ Len(session_state.lists) < MaxLists
        /\ Call("add_list", None, None, r)
        /\ clock' = IF r.saves THEN clock + 1 ELSE clock

CallAddList ==
    \E new_list_name \in ListNameInputs, emoji \in LIST_EMOJIS :
       CallAddListWith(new_list_name, emoji)

Next ==
    \/ Login
    \/ Register
    \/ Logout
    \/ CreateList
    \/ SelectList
    \/ ConfirmDelete
    \/ AddTask
    \/ ToggleTask
    \/ DeleteTask
    \/ ClearCompleted
    \/ ClearAll
    \/ RunScript

Spec == Init /\ [][Next]_vars

\* the same session on a storage whose writes can fail
SpecIO == InitIO /\ [][Next]_vars

NextApi ==
    \/ Next
    \/ CallAddList
    \/ CallAddTask
    \/ CallToggleTask
    \/ CallDeleteList

\* the page and a caller that uses the mutators directly
SpecApi == Init /\ [][NextApi]_vars

(***************************************************************************)
(* Properties.                                                             *)
(***************************************************************************)
DeleteListStep(list_id) == ConfirmDeleteOf(list_id) \/ CallDeleteListOf(list_id)

(* C1: when delete_list is invoked on a list whose owner is not the        *)
(* authenticated user, the call is rejected: the list and its tasks stay   *)
(* in the document as they were.                                           *)
C1_NonOwnerDeleteRejected ==
    [][\A list_id \in Keys(session_state.lists) :
          (/\ last'.op = "delete_list"
           /\ DeleteListStep(list_id)
           /\ OwnerOf(Get(session_state.lists, list_id)) # session_state.username)
          => /\ Has(session_state'.lists, list_id)
             /\ Get(session_state'.lists, list_id) = Get(session_state.lists, list_id)]_vars

(* C2: in every list, every task has a non-null completed_at exactly when  *)
(* its completed flag is true (a task without the field counts as null).   *)
C2_CompletedAtIffCompleted ==
    \A k \in Keys(session_state.lists) :
       \A i \in DOMAIN Get(session_state.lists, k).tasks :
          LET task == Get(session_state.lists, k).tasks[i]
          IN  (DataGet(task, "completed_at", None) # None) <=> task.completed

\* toggle_task has just turned a completed task back to pending
C2_ToggledBackToPending ==
    /\ last.op = "toggle_task"
    /\ Has(session_state.lists, last.list)
    /\ \E i \in DOMAIN Get(session_state.lists, last.list).tasks :
          LET task == Get(session_state.lists, last.list).tasks[i]
          IN  /\ task.id = last.task
              /\ ~task.completed
              /\ "completed_at" \in DOMAIN task
              /\ task.completed_at = None

(* C3: current_list is None or keys an existing list; when the loaded      *)
(* document has no current_list field, initialize_state sets it to the key *)
(* of an existing list, or to None when there is no list.                  *)
C3_CurrentListResolves ==
    /\ \/ session_state.current_list = None
       \/ Has(session_state.lists, session_state.current_list)
    /\ (/\ last.op = "initialize_state"
        /\ disk.kind = "json"
        /\ "current_list" \notin DOMAIN disk.text)
       => IF session_state.lists = <<>>
          THEN session_state.current_list = None
          ELSE Has(session_state.lists, session_state.current_list)

\* delete_list has just removed the active list and another list took its place
C3_ActiveListReplaced ==
    /\ last.op = "delete_list"
    /\ last.save = "ok"
    /\ ~Has(session_state.lists, last.list)
    /\ session_state.current_list # None
    /\ OwnerOf(Get(session_state.lists, session_state.current_list))
          # session_state.username

(* C4: a registration with an empty username or password, a username of    *)
(* fewer than 3 characters, a password of fewer than 4, a confirmation     *)
(* that differs, or a username already stored, fails and leaves the state  *)
(* unchanged; any other registration stores exactly one new user whose     *)
(* hash verifies the password; a stored user's record is never replaced.   *)
C4_RegistrationValidated ==
    /\ [](\A username \in UsernameInputs, password \in PasswordInputs,
             confirm_password \in PasswordInputs, salt \in Salts :
             LET r == register(session_state, username, password,
                               confirm_password, salt, clock)
                 invalid == \/ username = <<>>
                            \/ password = <<>>
                            \/ Len(username) < 3
                            \/ Len(password) < 4
                            \/ password # confirm_password
                            \/ username \in DOMAIN session_state.users
             IN  IF invalid
                 THEN r.error # "" /\ ~r.saves /\ r.state = session_state
                 ELSE /\ r.error = "" /\ r.saves
                      /\ DOMAIN r.state.users
                            = DOMAIN session_state.users \cup {username}
                      /\ \A u \in DOMAIN session_state.users :
                            r.state.users[u] = session_state.users[u]
                      /\ verify_password(r.state.users[username].password_hash,
                                         password))
    /\ [][/\ \A u \in DOMAIN session_state.users :
                /\ u \in DOMAIN session_state'.users
                /\ session_state'.users[u] = session_state.users[u]
          /\ session_state'.users # session_state.users
                => /\ last'.op = "register"
                   /\ Cardinality(DOMAIN session_state'.users)
                         = Cardinality(DOMAIN session_state.users) + 1]_vars

\* a registration has succeeded while another user was already stored
C4_RegisteredBesideExisting ==
    /\ last.op = "register"
    /\ last.save = "ok"
    /\ Cardinality(DOMAIN session_state.users) >= 2

C7_FailedSaveKeepsDisk ==
    [][faults' < faults
          => /\ load_data(disk') = load_data(disk)
             /\ pc' \in {"idle", "rerun"}]_vars

TasksOf(ss, list_id) == Get(ss.lists, list_id).tasks

KeyOrder(d) == [i \in DOMAIN d |-> d[i].k]

\* every list but list_id, the pointer, the users and the login are as before
OnlyListTouched(list_id) ==
    /\ KeyOrder(session_state'.lists) = KeyOrder(session_state.lists)
    /\ \A k \in Keys(session_state.lists) \ {list_id} :
          Get(session_state'.lists, k) = Get(session_state.lists, k)
    /\ \A f \in DOMAIN Get(session_state.lists, list_id) \ {"tasks"} :
          Get(session_state'.lists, list_id)[f] = Get(session_state.lists, list_id)[f]
    /\ \A f \in DOMAIN session_state \ {"lists"} :
          session_state'[f] = session_state[f]

ToggleStep(list_id, task_id) ==
    ToggleTaskOf(list_id, task_id) \/ CallToggleTaskOf(list_id, task_id)

C9_DeleteList ==
    [][\A list_id \in ListIdArgs :
          (/\ last'.op = "delete_list"
           /\ DeleteListStep(list_id))
          => IF Has(session_state.lists, list_id)
             THEN /\ ~Has(session_state'.lists, list_id)
                  /\ Keys(session_state'.lists) = Keys(session_state.lists) \ {list_id}
                  /\ Len(session_state'.lists) = Len(session_state.lists) - 1
                  /\ \A k \in Keys(session_state'.lists) :
                        Get(session_state'.lists, k) = Get(session_state.lists, k)
                  /\ \A i, j \in DOMAIN session_state'.lists :
                        i < j => IndexOf(session_state.lists, session_state'.lists[i].k)
                                    < IndexOf(session_state.lists, session_state'.lists[j].k)
                  /\ session_state'.current_list
                        = (IF session_state.current_list # list_id
                           THEN session_state.current_list
                           ELSE IF session_state'.lists = <<>>
                           THEN None
                           ELSE session_state'.lists[1].k)
                  /\ \A f \in DOMAIN session_state \ {"lists", "current_list"} :
                        session_state'[f] = session_state[f]
             ELSE UNCHANGED <<session_state, disk>>]_vars

\* delete_list has just been called with an id that keys no list
C9_DeletedUnknownList ==
    /\ last.op = "delete_list"
    /\ last.list = UnknownId
    /\ last.save = "none"
    /\ session_state.lists # <<>>

AddTaskStep(new_task, priority, emoji) ==
    AddTaskWith(new_task, priority, emoji) \/ CallAddTaskWith(new_task, priority, emoji)

(* C10: add_task changes nothing and raises nothing when the text strips   *)
(* to the empty string or there is no active list; otherwise it appends    *)
(* exactly one task to the active list, with completed false and the       *)
(* priority given, one of High, Medium, Low, and touches nothing else.     *)
C10_AddTask ==
    /\ [][\A new_task \in TaskTextInputs, priority \in PRIORITIES,
             emoji \in TASK_EMOJIS :
             (/\ last'.op = "add_task"
              /\ AddTaskStep(new_task, priority, emoji))
             => IF strip(new_task) = <<>> \/ session_state.current_list = None
                THEN UNCHANGED <<session_state, disk>>
                ELSE LET list_id == session_state.current_list
                         old == TasksOf(session_state, list_id)
                         new == TasksOf(session_state', list_id)
                     IN  /\ OnlyListTouched(list_id)
                         /\ Len(new) = Len(old) + 1
                         /\ SubSeq(new, 1, Len(old)) = old
                         /\ new[Len(new)].completed = FALSE
                         /\ new[Len(new)].priority = priority
                         /\ new[Len(new)].priority \in {"High", "Medium", "Low"}
                         /\ new[Len(new)].text = strip(new_task)
                         /\ \A i \in DOMAIN old : old[i].id # new[Len(new)].id]_vars
    /\ [](\A new_task \in TaskTextInputs, priority \in PRIORITIES,
             emoji \in TASK_EMOJIS :
             add_task(session_state, new_task, priority, emoji, clock + 1).error = "")

\* add_task has just been called with a text while no list was active
C10_AddedWithoutActiveList ==
    /\ last.op = "add_task"
    /\ last.via = "call"
    /\ last.list = None
    /\ last.save = "none"
    /\ session_state.current_list = None
    /\ session_state.lists # <<>>

AddListStep(new_list_name, emoji) ==
    CreateListWith(new_list_name, emoji) \/ CallAddListWith(new_list_name, emoji)

(* C11: add_list changes nothing when the name strips to the empty string; *)
(* otherwise it adds exactly one list, under an id that keyed no list      *)
(* before, with no tasks and the authenticated username as owner, makes it *)
(* the active list, and leaves every list already stored as it was.        *)
C11_AddList ==
    [][\A new_list_name \in ListNameInputs, emoji \in LIST_EMOJIS :
          (/\ last'.op = "add_list"
           /\ AddListStep(new_list_name, emoji))
          => IF strip(new_list_name) = <<>>
             THEN UNCHANGED <<session_state, disk>>
             ELSE LET list_id == session_state'.current_list
                  IN  /\ ~Has(session_state.lists, list_id)
                      /\ Keys(session_state'.lists)
                            = Keys(session_state.lists) \cup {list_id}
                      /\ Len(session_state'.lists) = Len(session_state.lists) + 1
                      /\ SubSeq(session_state'.lists, 1, Len(session_state.lists))
                            = session_state.lists
                      /\ Get(session_state'.lists, list_id).tasks = <<>>
                      /\ Get(session_state'.lists, list_id).owner
                            = session_state.username
                      /\ session_state.authenticated
                      /\ session_state.username # NoUser
                      /\ Get(session_state'.lists, list_id).name
                            = strip(new_list_name)
                      /\ \A f \in DOMAIN session_state \ {"lists", "current_list"} :
                            session_state'[f] = session_state[f]]_vars

\* add_list has just added a list beside the lists of the stored document
C11_ListAddedBesideOthers ==
    /\ last.op = "add_list"
    /\ last.save = "ok"
    /\ Len(session_state.lists) >= 2
    /\ session_state.current_list = session_state.lists[Len(session_state.lists)].k
    /\ session_state.lists[Len(session_state.lists)].v.tasks = <<>>
    /\ session_state.lists[Len(session_state.lists)].v.owner = session_state.username

\* the positions of the pending tasks of a task sequence
PendingAt(tasks) == {i \in DOMAIN tasks : ~tasks[i].completed}

\* the j-th pending task of a task sequence
NthPending(tasks, j) ==
    tasks[CHOOSE i \in PendingAt(tasks) :
             Cardinality({k \in PendingAt(tasks) : k <= i}) = j]

(* C12: get_task_count of a stored list is (number of its tasks, number of *)
(* its completed tasks), and (0, 0) for an id that keys no list;           *)
(* clear_completed removes exactly the completed tasks of the list, keeps  *)
(* the pending ones in their order, touches no other list, and afterwards  *)
(* get_task_count is (number of tasks that were pending, 0); a list just   *)
(* created, given one task that is then toggled, counts (1, 1) and is      *)
(* empty after clear_completed.                                            *)
C12_CountAndClear ==
    /\ [](\A list_id \in ListIdArgs :
             LET counts == get_task_count(session_state, list_id)
                 after == clear_completed(session_state, list_id).state
             IN  IF Has(session_state.lists, list_id)
                 THEN LET old == TasksOf(session_state, list_id)
                          new == TasksOf(after, list_id)
                      IN  /\ counts[1] = Len(old)
                          /\ counts[2] = Cardinality({i \in DOMAIN old : old[i].completed})
                          /\ Len(new) = Cardinality(PendingAt(old))
                          /\ \A j \in DOMAIN new : new[j] = NthPending(old, j)
                          /\ get_task_count(after, list_id)
                                = <<Cardinality(PendingAt(old)), 0>>
                          /\ \A k \in Keys(session_state.lists) \ {list_id} :
                                Get(after.lists, k) = Get(session_state.lists, k)
                 ELSE counts = <<0, 0>> /\ after = session_state)
    /\ [](session_state.authenticated
             => \A new_list_name \in ListNameInputs, new_task \in TaskTextInputs,
                   priority \in PRIORITIES :
                   (strip(new_list_name) # <<>> /\ strip(new_task) # <<>>)
                   => LET created == add_list(session_state, new_list_name,
                                              "memo", clock + 1).state
                          list_id == created.current_list
                          added == add_task(created, new_task, priority,
                                            "bullet", clock + 2).state
                          task_id == TasksOf(added, list_id)[1].id
                          toggled == toggle_task(added, list_id, task_id,
                                                 clock + 2).state
                          cleared == clear_completed(toggled, list_id).state
                      IN  /\ get_task_count(created, list_id) = <<0, 0>>
                          /\ get_task_count(added, list_id) = <<1, 0>>
                          /\ get_task_count(toggled, list_id) = <<1, 1>>
                          /\ TasksOf(cleared, list_id) = <<>>
                          /\ get_task_count(cleared, list_id) = <<0, 0>>)
    /\ [][(last'.op = "clear_completed" /\ ClearCompleted)
             => LET list_id == session_state.current_list
                    counts == get_task_count(session_state, list_id)
                IN  /\ OnlyListTouched(list_id)
                    /\ get_task_count(session_state', list_id)
                          = <<counts[1] - counts[2], 0>>
                    /\ \A j \in DOMAIN TasksOf(session_state', list_id) :
                          TasksOf(session_state', list_id)[j]
                             = NthPending(TasksOf(session_state, list_id), j)]_vars

\* clear_completed has just removed a completed task and kept a pending one
C12_ClearedKeepingPending ==
    /\ last.op = "clear_completed"
    /\ last.save = "ok"
    /\ last.via = "ui"
    /\ Has(session_state.lists, last.list)
    /\ get_task_count(session_state, last.list) = <<1, 0>>

ListTaskMutators ==
    {"add_list", "add_task", "toggle_task", "delete_task", "clear_completed",
     "clear_all_tasks", "delete_list"}

(* C13: in the page flow, a list is removed or its task sequence changed   *)
(* only in a step taken while the session is authenticated as the owner of *)
(* that list; no list or task mutator runs while the session is            *)
(* unauthenticated; and whenever the page waits for input with a           *)
(* current_list that keys a list, that list is owned by the authenticated  *)
(* user, so the task view and its controls act on the user's own list.     *)
C13_OnlyOwnerMutates ==
    /\ []((/\ pc = "idle"
           /\ session_state.authenticated
           /\ session_state.current_list # None)
             => /\ Has(session_state.lists, session_state.current_list)
                /\ OwnerOf(Get(session_state.lists, session_state.current_list))
                      = session_state.username)
    /\ [][/\ \A list_id \in Keys(session_state.lists) :
                (\/ ~Has(session_state'.lists, list_id)
                 \/ TasksOf(session_state', list_id) # TasksOf(session_state, list_id))
                => /\ session_state.authenticated
                   /\ session_state.username # NoUser
                   /\ OwnerOf(Get(session_state.lists, list_id))
                         = session_state.username
          /\ session_state'.lists # session_state.lists
                => session_state.authenticated /\ session_state'.authenticated
          /\ (last' # last /\ last'.via = "ui" /\ last'.op \in ListTaskMutators)
                => session_state.authenticated]_vars

\* delete_list left a list of another user active and the script run reset it
C13_ForeignPointerReset ==
    /\ last.op = "delete_list"
    /\ last.via = "script"
    /\ session_state.authenticated
    /\ session_state.current_list = None
    /\ \E k \in Keys(session_state.lists) :
          /\ OwnerOf(Get(session_state.lists, k)) # session_state.username
          /\ TasksOf(session_state, k) # <<>>

====
